---- MODULE Spec2Model ----
(***************************************************************************)
(* Model of workflow_job_template.go: WorkflowJobTemplateService.Launch,   *)
(* the two job handlers CheckOnce and DefaultJobHandler, the goroutine     *)
(* DefaultJobHandler starts, and CreateJobTemplate.  The caller and the    *)
(* goroutine are two processes that meet on the unbuffered channel         *)
(* quitChan and share the Job that `result` points to.                     *)
(***************************************************************************)
EXTENDS Integers, Sequences, FiniteSets, TLC

\* ------------------------------------------------------------------ bounds
\* Number of status fetches the remote side answers in one run.
MaxPolls == 3
\* Largest attempt bound (maxtries) a caller passes; -1 and 0 are always tried.
MaxTries == 3

\* ------------------------------------------------------- program constants
PENDING == "pending"
WAITING == "waiting"
RUNNING == "running"
SUCCESSFUL == "successful"
FAILED == "failed"
ERROR == "error"
CANCELED == "canceled"

JobStatus == {PENDING, WAITING, RUNNING, SUCCESSFUL, FAILED, ERROR, CANCELED}

\* ------------------------------------------------------------ environment
\* What the remote side answers to one status fetch: a job status (a 2xx
\* answer that decodes), "API" (a non-2xx answer) or "TRANSPORT" (GetJSON
\* itself returns an error).
PollAnswers == JobStatus \cup {"API", "TRANSPORT"}
Scripts == [1..MaxPolls -> PollAnswers]

JobIds == {0, 7}
Intervals == {0, 1}
TriesValues == (-1)..MaxTries
Handlers == {"CheckOnce", "DefaultJobHandler"}

\* -------------------------------------------------------------- values
\* error values; Nil is Go's nil error
Nil == [kind |-> "nil", arg |-> 0]
PostJSONErr == [kind |-> "PostJSON", arg |-> 0]
LaunchCheckErr == [kind |-> "CheckResponse", arg |-> 0]
InvalidJobIdErr == [kind |-> "invalid job id 0", arg |-> 0]
GetJSONErr(k) == [kind |-> "GetJSON", arg |-> k]
CheckResponseErr(k) == [kind |-> "CheckResponse", arg |-> k]
MaxTriesErr(m) == [kind |-> "The maximum number of checking job status has been reached", arg |-> m]

\* a Job: its Status and (ghost) the number of the fetch that wrote it
EmptyJob == [Status |-> "", poll |-> 0]
NilJob == [Status |-> "<nil>", poll |-> 0]
NoReturn == [launch |-> -1, job |-> NilJob, err |-> Nil]

VARIABLES
  script,        \* the remote side's answers, in fetch order
  pc,            \* the caller: where it is in Launch / the handler
  gpc,           \* the goroutine of DefaultJobHandler: where it is
  launchArgs,    \* Launch's arguments jobHanlder, jobCheckInterval, jobCheckmaxtries
  WorkflowJob,   \* result.WorkflowJob of the launch acknowledgment
  handlerArgs,   \* the handler's parameters jobid, checkInterval, maxtries
  handlerCalls,  \* how often Launch called jobHanlder
  result,        \* the Job `result` points to (shared by caller and goroutine)
  resp,          \* the goroutine's / CheckOnce's resp
  gerr,          \* the value the goroutine is sending on quitChan
  tryCount,      \* the goroutine's tryCount
  err,           \* the caller's err, received from quitChan
  hret,          \* what the handler returned: (job, err)
  launchRet,     \* what Launch returned
  polls,         \* number of GetJSON status fetches made
  sleeps,        \* the durations of the time.Sleep calls made, in order
  outcomes,      \* the values the goroutine has tried to send on quitChan
  pollsAtRecv,   \* polls when the caller received from quitChan
  data,          \* CreateJobTemplate's data: the keys the payload holds
  createRet,     \* what CreateJobTemplate returned
  posts          \* number of PostJSON requests issued

vars == <<script, pc, gpc, launchArgs, WorkflowJob, handlerArgs, handlerCalls,
          result, resp, gerr, tryCount, err, hret, launchRet, polls, sleeps,
          outcomes, pollsAtRecv, data, createRet, posts>>

NoArgs == [handler |-> "none", interval |-> 0, tries |-> 0]
NoHandlerArgs == [jobid |-> 0, checkInterval |-> 0, maxtries |-> 0]
NoHret == [job |-> NilJob, err |-> Nil]

\* errors of CreateJobTemplate; fields are the names the message lists
CreateNil == [kind |-> "nil", fields |-> <<>>]
ValidationErr(notfound) == [kind |-> "Mandatory input arguments are absent", fields |-> notfound]
MarshalErr == [kind |-> "json.Marshal", fields |-> <<>>]
CreatePostErr == [kind |-> "PostJSON", fields |-> <<>>]
CreateCheckErr == [kind |-> "CheckResponse", fields |-> <<>>]
NoCreateRet == [template |-> "none", err |-> CreateNil]

Init ==
  /\ script \in Scripts
  /\ pc = "start"
  /\ gpc = "none"
  /\ launchArgs = NoArgs
  /\ WorkflowJob = -1
  /\ handlerArgs = NoHandlerArgs
  /\ handlerCalls = 0
  /\ result = NilJob
  /\ resp = "none"
  /\ gerr = Nil
  /\ tryCount = 0
  /\ err = Nil
  /\ hret = NoHret
  /\ launchRet = NoReturn
  /\ polls = 0
  /\ sleeps = <<>>
  /\ outcomes = <<>>
  /\ pollsAtRecv = 0
  /\ data = {}
  /\ createRet = NoCreateRet
  /\ posts = 0

\* ---------------------------------------------------------- collaborators
\* What a failed fetch may leave in the Job it decodes into: nothing, or a
\* Status written before the decoding stopped.
PartialJob(job, k) == {job} \cup {[Status |-> s, poll |-> k] : s \in JobStatus \cup {""}}

\* Requester.GetJSON(endpoint, result, nil) for the k-th fetch answered by a:
\* the possible (Job written, resp, err).
GetJSON(a, job, k) ==
  IF a \in JobStatus
    THEN {[job |-> [Status |-> a, poll |-> k], resp |-> "success", err |-> Nil]}
  ELSE IF a = "API"
    THEN {[job |-> j, resp |-> "failure", err |-> Nil] : j \in PartialJob(job, k)}
  ELSE {[job |-> j, resp |-> r, err |-> GetJSONErr(k)] :
          j \in PartialJob(job, k), r \in {"none", "success", "failure"}}

\* CheckResponse(resp): "nil", "err", or a nil-pointer panic when there is no
\* response to look at.
CheckResponse(r) ==
  IF r = "success" THEN {"nil"}
  ELSE IF r = "failure" THEN {"err"}
  ELSE {"err", "panic"}

Alive == gpc # "panicked"

\* Requester.PostJSON(endpoint, nil, result, nil) of Launch: the possible
\* (resp, err, result.WorkflowJob).
PostJSON ==
  {[resp |-> "none", err |-> PostJSONErr, WorkflowJob |-> 0],
   [resp |-> "failure", err |-> Nil, WorkflowJob |-> 0]}
  \cup {[resp |-> "success", err |-> Nil, WorkflowJob |-> wj] : wj \in JobIds}

\* ------------------------------------------------------------------ Launch
\* a Launch that never rejects a job id
InvalidJobId_never(wj) == FALSE

\* line 88: if result.WorkflowJob == 0
InvalidJobId(wj) == wj = 0

\* a call that passes the interval and the attempt bound in the wrong order
JobHanlderArgs_swapped(wj, jobCheckInterval, jobCheckmaxtries) ==
  [jobid |-> wj, checkInterval |-> jobCheckmaxtries, maxtries |-> jobCheckInterval]

\* line 91: jobHanlder(jt, result.WorkflowJob, jobCheckInterval, jobCheckmaxtries)
JobHanlderArgs(wj, jobCheckInterval, jobCheckmaxtries) ==
  [jobid |-> wj, checkInterval |-> jobCheckInterval, maxtries |-> jobCheckmaxtries]

\* Launch, lines 74-91: post the launch, check the response and the job id,
\* and call the handler.
Launch ==
  /\ pc = "start"
  /\ \E h \in Handlers, i \in Intervals, m \in TriesValues, p \in PostJSON :
       /\ launchArgs' = [handler |-> h, interval |-> i, tries |-> m]
       /\ IF p.err # Nil
            THEN /\ launchRet' = [launch |-> -1, job |-> NilJob, err |-> p.err]
                 /\ pc' = "done"
                 /\ UNCHANGED <<WorkflowJob, handlerArgs, handlerCalls>>
          ELSE IF "nil" \notin CheckResponse(p.resp)
            THEN /\ launchRet' = [launch |-> -1, job |-> NilJob, err |-> LaunchCheckErr]
                 /\ pc' = "done"
                 /\ UNCHANGED <<WorkflowJob, handlerArgs, handlerCalls>>
          ELSE IF InvalidJobId(p.WorkflowJob)
            THEN /\ launchRet' = [launch |-> -1, job |-> NilJob, err |-> InvalidJobIdErr]
                 /\ WorkflowJob' = p.WorkflowJob
                 /\ pc' = "done"
                 /\ UNCHANGED <<handlerArgs, handlerCalls>>
          ELSE /\ WorkflowJob' = p.WorkflowJob
               /\ handlerArgs' = JobHanlderArgs(p.WorkflowJob, i, m)
               /\ handlerCalls' = handlerCalls + 1
               /\ pc' = "handler"
               /\ UNCHANGED launchRet
  /\ UNCHANGED <<script, gpc, result, resp, gerr, tryCount, err, hret, polls,
                 sleeps, outcomes, pollsAtRecv>>
  /\ posts' = posts + 1
  /\ UNCHANGED <<data, createRet>>

\* Launch, line 92: return result, jobresult, err
LaunchReturn ==
  /\ pc = "handlerReturned"
  /\ Alive
  /\ launchRet' = [launch |-> WorkflowJob, job |-> hret.job, err |-> hret.err]
  /\ pc' = "done"
  /\ UNCHANGED <<script, gpc, launchArgs, WorkflowJob, handlerArgs, handlerCalls,
                 result, resp, gerr, tryCount, err, hret, polls, sleeps,
                 outcomes, pollsAtRecv>>
  /\ UNCHANGED <<data, createRet, posts>>

\* --------------------------------------------------------------- CheckOnce
\* a CheckOnce without the response check of lines 107-109
CheckOnceReturns_noCheck(g, k) == {[job |-> g.job, err |-> g.err]}

\* lines 103-110: what CheckOnce returns after the k-th fetch gave g
CheckOnceReturns(g, k) ==
  IF g.err # Nil
    THEN {[job |-> g.job, err |-> g.err]}
  ELSE {[job |-> g.job, err |-> IF c = "err" THEN CheckResponseErr(k) ELSE Nil] :
          c \in CheckResponse(g.resp)}

\* CheckOnce, lines 99-111: one fetch, one response check, return.
CheckOnce ==
  /\ pc = "handler"
  /\ launchArgs.handler = "CheckOnce"
  /\ polls < Len(script)
  /\ polls' = polls + 1
  /\ \E g \in GetJSON(script[polls + 1], EmptyJob, polls + 1) :
       /\ result' = g.job
       /\ resp' = g.resp
       /\ hret' \in CheckOnceReturns(g, polls + 1)
  /\ pc' = "handlerReturned"
  /\ UNCHANGED <<script, gpc, launchArgs, WorkflowJob, handlerArgs, handlerCalls,
                 gerr, tryCount, err, launchRet, sleeps, outcomes, pollsAtRecv>>
  /\ UNCHANGED <<data, createRet, posts>>

\* ------------------------------------------------------- DefaultJobHandler
\* a fetch whose error is never looked at
ErrNotNil_never(e) == FALSE

\* line 122: err != nil
ErrNotNil(e) == e # Nil

\* a status test that takes a canceled job for one still in flight
NotInFlight_canceledInFlight(status) ==
  status # PENDING /\ status # WAITING /\ status # RUNNING /\ status # CANCELED

\* a status test for which only a successful job has ended
NotInFlight_onlySuccessful(status) == status = SUCCESSFUL

\* a status test that forgets WAITING
NotInFlight_noWaiting(status) == status # PENDING /\ status # RUNNING

\* line 130: the status is none of PENDING, WAITING, RUNNING
NotInFlight(status) == status # PENDING /\ status # WAITING /\ status # RUNNING

\* line 135: tryCount <= maxtries && maxtries != -1
MaxTriesReached(t, maxtries) == t <= maxtries /\ maxtries # -1

\* a sleep that leaves out the unit: nanoseconds, no time at all in seconds
SleepSeconds_noUnit(checkInterval) == 0

\* line 139: time.Duration(checkInterval) * time.Second, in seconds
SleepSeconds(checkInterval) == checkInterval

SendPcs == {"send123", "send127", "send131", "send136"}

\* lines 115-118, 141: result := &Job{}, make the channel, start the goroutine
\* with its own copy of tryCount, then block on the receive of line 142.
DefaultJobHandler ==
  /\ pc = "handler"
  /\ launchArgs.handler = "DefaultJobHandler"
  /\ result' = EmptyJob
  /\ tryCount' = 0
  /\ gpc' = "poll"
  /\ pc' = "recv"
  /\ UNCHANGED <<script, launchArgs, WorkflowJob, handlerArgs, handlerCalls, resp,
                 gerr, err, hret, launchRet, polls, sleeps, outcomes, pollsAtRecv>>
  /\ UNCHANGED <<data, createRet, posts>>

\* lines 120-124: fetch the status into result; on an error go to the send of
\* line 123.
Poll ==
  /\ gpc = "poll"
  /\ polls < Len(script)
  /\ polls' = polls + 1
  /\ \E g \in GetJSON(script[polls + 1], result, polls + 1) :
       /\ result' = g.job
       /\ resp' = g.resp
       /\ IF ErrNotNil(g.err)
            THEN /\ gerr' = g.err
                 /\ outcomes' = Append(outcomes, g.err)
                 /\ gpc' = "send123"
          ELSE /\ gpc' = "check"
               /\ UNCHANGED <<gerr, outcomes>>
  /\ UNCHANGED <<script, pc, launchArgs, WorkflowJob, handlerArgs, handlerCalls,
                 tryCount, err, hret, launchRet, sleeps, pollsAtRecv>>
  /\ UNCHANGED <<data, createRet, posts>>

\* line 123: quitChan <- err meets the caller's receive of line 142; the
\* goroutine then goes on to line 126 (there is no return after this send).
SendPollError ==
  /\ gpc = "send123"
  /\ pc = "recv"
  /\ err' = gerr
  /\ pollsAtRecv' = polls
  /\ pc' = "ret"
  /\ gpc' = "check"
  /\ UNCHANGED <<script, launchArgs, WorkflowJob, handlerArgs, handlerCalls, result,
                 resp, gerr, tryCount, hret, launchRet, polls, sleeps, outcomes>>
  /\ UNCHANGED <<data, createRet, posts>>

\* lines 126-129: CheckResponse(resp); an error goes to the send of line 127.
Check ==
  /\ gpc = "check"
  /\ \E c \in CheckResponse(resp) :
       IF c = "panic"
         THEN /\ gpc' = "panicked"
              /\ UNCHANGED <<gerr, outcomes>>
       ELSE IF c = "err"
         THEN /\ gerr' = CheckResponseErr(polls)
              /\ outcomes' = Append(outcomes, CheckResponseErr(polls))
              /\ gpc' = "send127"
       ELSE /\ gpc' = "status"
            /\ UNCHANGED <<gerr, outcomes>>
  /\ UNCHANGED <<script, pc, launchArgs, WorkflowJob, handlerArgs, handlerCalls,
                 result, resp, tryCount, err, hret, launchRet, polls, sleeps,
                 pollsAtRecv>>
  /\ UNCHANGED <<data, createRet, posts>>

\* lines 130-133: a status that is not in flight goes to the send of line 131.
Status ==
  /\ gpc = "status"
  /\ IF NotInFlight(result.Status)
       THEN /\ gerr' = Nil
            /\ outcomes' = Append(outcomes, Nil)
            /\ gpc' = "send131"
     ELSE /\ gpc' = "count"
          /\ UNCHANGED <<gerr, outcomes>>
  /\ UNCHANGED <<script, pc, launchArgs, WorkflowJob, handlerArgs, handlerCalls,
                 result, resp, tryCount, err, hret, launchRet, polls, sleeps,
                 pollsAtRecv>>
  /\ UNCHANGED <<data, createRet, posts>>

\* lines 134-138: tryCount++, then the attempt-bound test; when it holds go to
\* the send of line 136.
Count ==
  /\ gpc = "count"
  /\ tryCount' = tryCount + 1
  /\ IF MaxTriesReached(tryCount + 1, handlerArgs.maxtries)
       THEN /\ gerr' = MaxTriesErr(handlerArgs.maxtries)
            /\ outcomes' = Append(outcomes, MaxTriesErr(handlerArgs.maxtries))
            /\ gpc' = "send136"
     ELSE /\ gpc' = "sleep"
          /\ UNCHANGED <<gerr, outcomes>>
  /\ UNCHANGED <<script, pc, launchArgs, WorkflowJob, handlerArgs, handlerCalls,
                 result, resp, err, hret, launchRet, polls, sleeps, pollsAtRecv>>
  /\ UNCHANGED <<data, createRet, posts>>

\* line 139: time.Sleep, then the next iteration.
Sleep ==
  /\ gpc = "sleep"
  /\ sleeps' = Append(sleeps, SleepSeconds(handlerArgs.checkInterval))
  /\ gpc' = "poll"
  /\ UNCHANGED <<script, pc, launchArgs, WorkflowJob, handlerArgs, handlerCalls,
                 result, resp, gerr, tryCount, err, hret, launchRet, polls,
                 outcomes, pollsAtRecv>>
  /\ UNCHANGED <<data, createRet, posts>>

\* lines 127-128, 131-132, 136-137: the send meets the caller's receive of
\* line 142 and the goroutine returns.
SendAndReturn ==
  /\ gpc \in {"send127", "send131", "send136"}
  /\ pc = "recv"
  /\ err' = gerr
  /\ pollsAtRecv' = polls
  /\ pc' = "ret"
  /\ gpc' = "returned"
  /\ UNCHANGED <<script, launchArgs, WorkflowJob, handlerArgs, handlerCalls, result,
                 resp, gerr, tryCount, hret, launchRet, polls, sleeps, outcomes>>
  /\ UNCHANGED <<data, createRet, posts>>

\* line 143: return result, err.  The Job returned is the one result points
\* to: hret.job is what it holds at the return.
Return ==
  /\ pc = "ret"
  /\ Alive
  /\ hret' = [job |-> result, err |-> err]
  /\ pc' = "handlerReturned"
  /\ UNCHANGED <<script, gpc, launchArgs, WorkflowJob, handlerArgs, handlerCalls,
                 result, resp, gerr, tryCount, err, launchRet, polls, sleeps,
                 outcomes, pollsAtRecv>>
  /\ UNCHANGED <<data, createRet, posts>>

\* ------------------------------------------------------- CreateJobTemplate
\* the keys a payload may hold
PayloadFields == {"name", "job_type", "inventory", "project", "description"}

\* a list of mandatory fields that leaves out the inventory
MandatoryFields_noInventory == <<"name", "job_type", "project">>

\* line 149: mandatoryFields = []string{"name", "job_type", "inventory", "project"}
MandatoryFields == <<"name", "job_type", "inventory", "project">>

\* ValidateParams(data, mandatoryFields): the mandatory fields the payload
\* lacks, in their order, and whether there is none.
ValidateParams(d, fields) ==
  LET notfound == SelectSeq(fields, LAMBDA f : f \notin d)
  IN  [notfound |-> notfound, status |-> notfound = <<>>]

\* CreateJobTemplate, lines 147-169: validate, marshal, post, check.
CreateJobTemplate ==
  /\ pc = "start"
  /\ \E d \in SUBSET PayloadFields, marshal \in {"ok", "err"}, p \in PostJSON :
       LET v == ValidateParams(d, MandatoryFields) IN
       /\ data' = d
       /\ IF ~v.status
            THEN /\ createRet' = [template |-> "nil", err |-> ValidationErr(v.notfound)]
                 /\ posts' = posts
          ELSE IF marshal = "err"
            THEN /\ createRet' = [template |-> "nil", err |-> MarshalErr]
                 /\ posts' = posts
          ELSE /\ posts' = posts + 1
               /\ createRet' =
                    IF p.err # Nil THEN [template |-> "nil", err |-> CreatePostErr]
                    ELSE IF "nil" \notin CheckResponse(p.resp)
                      THEN [template |-> "nil", err |-> CreateCheckErr]
                    ELSE [template |-> "JobTemplate", err |-> CreateNil]
  /\ pc' = "done"
  /\ UNCHANGED <<script, gpc, launchArgs, WorkflowJob, handlerArgs, handlerCalls,
                 result, resp, gerr, tryCount, err, hret, launchRet, polls,
                 sleeps, outcomes, pollsAtRecv>>

Next ==
  \/ CreateJobTemplate
  \/ Launch
  \/ LaunchReturn
  \/ CheckOnce
  \/ DefaultJobHandler
  \/ Poll
  \/ SendPollError
  \/ Check
  \/ Status
  \/ Count
  \/ Sleep
  \/ SendAndReturn
  \/ Return

Spec == Init /\ [][Next]_vars

\* ------------------------------------------------------------ vocabulary
InFlightStatuses == {PENDING, WAITING, RUNNING}
TerminalStatuses == JobStatus \ InFlightStatuses
PollFailures == {"API", "TRANSPORT"}

\* DefaultJobHandler is the handler Launch called, and it has started its goroutine
Watching == launchArgs.handler = "DefaultJobHandler" /\ gpc # "none"
\* ... and the caller has received the outcome from quitChan
Received == Watching /\ pc \in {"ret", "handlerReturned", "done"}
\* ... and DefaultJobHandler has returned
Returned == Watching /\ pc \in {"handlerReturned", "done"}

\* the answers are in flight up to k-1 and terminal at k
FirstTerminalAt(k) ==
  /\ k \in 1..Len(script)
  /\ script[k] \in TerminalStatuses
  /\ \A i \in 1..(k - 1) : script[i] \in InFlightStatuses

\* fetch f was made, failed, and no earlier fetch failed
FirstFailedPoll(f) ==
  /\ f \in 1..polls
  /\ script[f] \in PollFailures
  /\ \A i \in 1..(f - 1) : script[i] \notin PollFailures

\* the error of the failed fetch f
PollError(f) == IF script[f] = "TRANSPORT" THEN GetJSONErr(f) ELSE CheckResponseErr(f)

Snapshot(k) == [Status |-> script[k], poll |-> k]

\* ------------------------------------------------------------------ claims

\* C1: when the answers are in flight and then terminal at fetch k, with k
\* within the attempt bound maxtries, DefaultJobHandler returns the snapshot of
\* fetch k and a nil error.
C1_TerminalWithinBound ==
  \A k \in 1..MaxPolls :
    (Returned /\ FirstTerminalAt(k) /\ k <= handlerArgs.maxtries)
      => hret = [job |-> Snapshot(k), err |-> Nil]

\* C2: with a finite attempt bound N and answers that stay in flight for more
\* than N fetches, DefaultJobHandler returns the exhaustion error, makes no
\* fetch beyond the bound and does not report exhaustion before the bound is
\* reached (a bound of 0 still allows the first fetch, which precedes every
\* test).
C2_BoundRespectedExactly ==
  LET N == handlerArgs.maxtries
      B == IF N = 0 THEN 1 ELSE N
  IN  (Watching /\ N >= 0 /\ N < Len(script)
         /\ \A i \in 1..(N + 1) : script[i] \in InFlightStatuses)
        => /\ polls <= B
           /\ (outcomes # <<>> => outcomes = <<MaxTriesErr(N)>> /\ polls = B)
           /\ (Returned => hret.err = MaxTriesErr(N))

\* C3: with maxtries = -1 and every fetch so far successful, the goroutine
\* sends nothing and the caller receives nothing while the status fetched is
\* in flight; at the first terminal answer it goes straight to the send of nil
\* (no count, no sleep, no further fetch) and the handler returns that snapshot.
C3_UnboundedResolvesAtTerminal ==
  (Watching /\ handlerArgs.maxtries = -1 /\ \A i \in 1..polls : script[i] \in JobStatus)
    => /\ (\A i \in 1..polls : script[i] \in InFlightStatuses)
            => outcomes = <<>> /\ pc = "recv" /\ gpc \notin SendPcs \cup {"returned"}
       /\ (\E i \in 1..polls : script[i] \in TerminalStatuses)
            => /\ FirstTerminalAt(polls)
               /\ gpc \in {"check", "status", "send131", "returned"}
               /\ outcomes \in {<<>>, <<Nil>>}
               /\ (gpc = "returned" => Received)
               /\ (Received => err = Nil)
               /\ (Returned => hret = [job |-> Snapshot(polls), err |-> Nil])

\* C3 witness: unbounded, two in-flight answers, then a terminal one, returned.
C3_Witness ==
  /\ Returned /\ handlerArgs.maxtries = -1
  /\ polls = 3 /\ FirstTerminalAt(3)
  /\ script[1] = WAITING
  /\ hret.err = Nil

\* C4: the first failed fetch f (GetJSON error or CheckResponse rejection) is
\* what the caller gets: until the caller receives, the goroutine makes no
\* further fetch and is at or on the way to the send of that error; the value
\* received and the error returned are the error of fetch f, whatever maxtries.
C4_PollFailureReturned ==
  \A f \in 1..MaxPolls :
    (Watching /\ FirstFailedPoll(f))
      => /\ pc = "recv" =>
              /\ polls = f
              /\ Len(sleeps) = f - 1
              /\ gpc \in {"send123", "check", "send127"}
              /\ (gpc \in SendPcs => gerr = PollError(f))
         /\ Received => err = PollError(f) /\ pollsAtRecv = f
         /\ Returned => hret.err = PollError(f)

\* C4 witness: a GetJSON error at the second fetch, with attempts left
\* unbounded, has been returned.
C4_Witness ==
  /\ Returned /\ FirstFailedPoll(2) /\ script[2] = "TRANSPORT"
  /\ handlerArgs.maxtries = -1
  /\ hret.err = GetJSONErr(2)

\* C5: the goroutine attempts at most one send on quitChan.
C5_AtMostOneSend == Len(outcomes) <= 1

\* C6: after the first failed fetch f no further fetch and no sleep is made.
C6_StopsAfterFailedPoll ==
  \A f \in 1..MaxPolls :
    (Watching /\ FirstFailedPoll(f)) => polls = f /\ Len(sleeps) = f - 1

\* C7: once the caller has received its outcome the goroutine is not blocked
\* on a send and makes no further fetch.
C7_NoLeakedGoroutine ==
  Received => gpc \notin SendPcs /\ polls = pollsAtRecv

\* C8: with job id 0 in the acknowledgment Launch has returned the invalid job
\* id error without calling the handler and without any status fetch.
C8_ZeroJobIdNoWatch ==
  WorkflowJob = 0
    => /\ handlerCalls = 0 /\ polls = 0 /\ gpc = "none"
       /\ pc = "done"
       /\ launchRet = [launch |-> -1, job |-> NilJob, err |-> InvalidJobIdErr]

\* C8 witness: a launch acknowledged with job id 0 has returned.
C8_Witness == WorkflowJob = 0 /\ pc = "done" /\ launchRet.err = InvalidJobIdErr

\* C9: when every fetch succeeds and the first terminal answer is at fetch k,
\* with k not above the attempt bound, the handler returns after exactly k
\* fetches with that status and no error (running, running, successful with a
\* bound of at least 3: 3 fetches).
C9_ExactlyKPolls ==
  \A k \in 1..MaxPolls :
    (Returned /\ FirstTerminalAt(k) /\ k <= handlerArgs.maxtries)
      => polls = k /\ pollsAtRecv = k /\ hret.job.Status = script[k] /\ hret.err = Nil

\* C10: once DefaultJobHandler has returned, the Job it returned is not
\* written again.
C10_NoWriteAfterReturn == [][Returned => result' = result]_vars

\* C11: when DefaultJobHandler returns the exhaustion error, the Job returned
\* with it is the snapshot of the last fetch made, that fetch succeeded, and
\* its status is in flight.
C11_ExhaustionCarriesLastSnapshot ==
  (Returned /\ hret.err = MaxTriesErr(handlerArgs.maxtries))
    => /\ polls >= 1 /\ polls = pollsAtRecv
       /\ script[polls] \in InFlightStatuses
       /\ hret.job = Snapshot(polls)
       /\ result = hret.job
       /\ gpc = "returned"

\* C11 witness: the exhaustion error has been returned with a waiting job.
C11_Witness ==
  /\ Returned /\ hret.err = MaxTriesErr(2)
  /\ hret.job.Status = WAITING

\* C12: after a launch acknowledged with a non-zero job id, Launch has called
\* the handler exactly once, with that job id and the caller's interval and
\* attempt bound; it has made no status fetch and no sleep before the call
\* (and with CheckOnce as the handler the one fetch of CheckOnce is all there
\* is); it returns the acknowledgment with the handler's Job and error.
C12_LaunchDelegatesOnce ==
  (WorkflowJob # -1 /\ WorkflowJob # 0)
    => /\ handlerCalls = 1
       /\ handlerArgs = [jobid |-> WorkflowJob,
                         checkInterval |-> launchArgs.interval,
                         maxtries |-> launchArgs.tries]
       /\ (pc = "handler" => polls = 0 /\ sleeps = <<>> /\ gpc = "none")
       /\ (launchArgs.handler = "CheckOnce" /\ pc \in {"handlerReturned", "done"}
             => polls = 1 /\ sleeps = <<>>)
       /\ (pc = "done"
             => launchRet = [launch |-> WorkflowJob, job |-> hret.job, err |-> hret.err])

\* C12 witness: a launch of job 7 with interval 1 and bound 2 has returned the
\* handler's error.
C12_Witness ==
  /\ pc = "done" /\ WorkflowJob = 7 /\ handlerCalls = 1
  /\ launchArgs.interval = 1 /\ launchArgs.tries = 2
  /\ launchRet.err # Nil /\ launchRet.err = hret.err

\* C13: CreateJobTemplate called with a payload that lacks one or more of
\* name, job_type, inventory, project returns no template and the error that
\* lists exactly the fields that are missing, and issues no request.
C13_CreateValidatesFirst ==
  LET mandatory == {"name", "job_type", "inventory", "project"} IN
  (createRet # NoCreateRet /\ mandatory \ data # {})
    => /\ createRet.template = "nil"
       /\ createRet.err.kind = "Mandatory input arguments are absent"
       /\ {createRet.err.fields[i] : i \in 1..Len(createRet.err.fields)} = mandatory \ data
       /\ Len(createRet.err.fields) = Cardinality(mandatory \ data)
       /\ posts = 0

\* C13 witness: a payload that lacks only the inventory has been rejected.
C13_Witness ==
  /\ pc = "done"
  /\ data = {"name", "job_type", "project", "description"}
  /\ createRet.err = ValidationErr(<<"inventory">>)

\* C14: CheckOnce, whatever interval and attempt bound it is given, has made
\* exactly one status fetch and no sleep when it returns, has started no
\* goroutine, and returns the Job of that fetch: with a nil error when the
\* fetch succeeded, with the GetJSON or CheckResponse error when it failed.
C14_CheckOncePollsOnce ==
  (launchArgs.handler = "CheckOnce" /\ handlerCalls = 1
     /\ pc \in {"handlerReturned", "done"})
    => /\ polls = 1 /\ sleeps = <<>>
       /\ gpc = "none" /\ outcomes = <<>> /\ tryCount = 0
       /\ hret.job = result
       /\ (script[1] \in JobStatus => hret = [job |-> Snapshot(1), err |-> Nil])
       /\ (script[1] \in PollFailures => hret.err = PollError(1))

\* C14 witness: CheckOnce, given interval 1 and bound 3, has returned the
\* CheckResponse error of its one fetch.
C14_Witness ==
  /\ launchArgs = [handler |-> "CheckOnce", interval |-> 1, tries |-> 3]
  /\ pc = "done" /\ polls = 1
  /\ launchRet.err = CheckResponseErr(1)

\* C15: a watcher given maxtries = 0 never sleeps, and a watcher given a
\* bound N >= 1 never makes more than N status fetches.
C15_ZeroAttemptsNeverSleeps ==
  Watching
    => /\ (handlerArgs.maxtries = 0 => sleeps = <<>>)
       /\ (handlerArgs.maxtries >= 1 => polls <= handlerArgs.maxtries)

C17_FirstPollTerminal ==
  (Watching /\ polls >= 1 /\ script[1] \in TerminalStatuses)
    => /\ polls = 1 /\ sleeps = <<>> /\ tryCount = 0
       /\ gpc \in {"check", "status", "send131", "returned"}
       /\ outcomes \in {<<>>, <<Nil>>}
       /\ (Received => err = Nil /\ gpc = "returned")
       /\ (Returned => hret = [job |-> Snapshot(1), err |-> Nil])

\* C17 witness: maxtries = 0 and a first answer of failed, returned without
\* error.
C17_Witness ==
  /\ Returned /\ handlerArgs.maxtries = 0
  /\ script[1] = FAILED
  /\ hret = [job |-> Snapshot(1), err |-> Nil]

====
